---- MODULE Spec2Model ----
(***************************************************************************)
(* Model of MapAnalysisService (duplicate / similar map analysis) of       *)
(* bs-manager: groupByHash, normalizeSongInfo, getSimilarity,              *)
(* levenshteinDistance, groupBySimilarSong, rankMapGroups, estimateMapSize *)
(* and findSimilarMaps.                                                    *)
(*                                                                         *)
(* Representation choices                                                  *)
(*  - a JavaScript string is a sequence of one-character strings;          *)
(*  - an optional field is Null (absent, null or undefined) or Some(v);    *)
(*  - mapInfo.difficulties is the sequence of the difficulty tags of its    *)
(*    entries (diff.difficulty), repetitions kept;                         *)
(*  - path is the identity of a local map: the record at position k of the *)
(*    input batch has path k;                                              *)
(*  - a similarity 1 - distance/maxLength is the exact fraction            *)
(*    [num |-> maxLength - distance, den |-> maxLength]; for the integer   *)
(*    inputs used here the IEEE-754 comparisons of the source with 0.9,    *)
(*    0.8, 0.7 (and bpmDiff/bpm with 0.1, duration*0.15) agree with the    *)
(*    exact comparisons;                                                   *)
(*  - a score is kept in units of 1/ScoreUnit (downloads / 20 is not an    *)
(*    integer), so score = 600 is stored as 600 * ScoreUnit;               *)
(*  - a JavaScript number is an integer or one of NaN, Infinity and        *)
(*    -Infinity, which are three reserved integers beyond every finite     *)
(*    value that occurs; Plus, Minus and Times compute as IEEE-754 does on *)
(*    them;                                                                *)
(*  - of SimilarMapsPanel the selections and deleteSelectedDuplicates are  *)
(*    modelled: a JavaScript Set is a set (its insertion order only orders *)
(*    mapsToDelete), and mapsToDelete is the set of the positions          *)
(*    <<groupIndex, mapIndex>> whose map was pushed.                       *)
(***************************************************************************)
EXTENDS Integers, Sequences, FiniteSets, TLC

\* optional values
Null == <<>>
Some(v) == <<v>>
Val(x) == x[1]

(***************************************************************************)
(* Characters and strings                                                  *)
(***************************************************************************)
UpperSeq ==
  <<"A","B","C","D","E","F","G","H","I","J","K","L","M",
    "N","O","P","Q","R","S","T","U","V","W","X","Y","Z">>
LowerSeq ==
  <<"a","b","c","d","e","f","g","h","i","j","k","l","m",
    "n","o","p","q","r","s","t","u","v","w","x","y","z">>
DigitChars == {"0","1","2","3","4","5","6","7","8","9"}

Range(s) == {s[k] : k \in 1..Len(s)}

\* the class \w of a JavaScript regular expression: [A-Za-z0-9_]
WordChars == Range(UpperSeq) \cup Range(LowerSeq) \cup DigitChars \cup {"_"}
\* the class \s, restricted to the white space that occurs in the model
SpaceChars == {" ", "\t"}

\* String.prototype.toLowerCase on one character
LowerChar(c) ==
  IF c \in Range(UpperSeq)
    THEN LowerSeq[CHOOSE k \in 1..Len(UpperSeq) : UpperSeq[k] = c]
    ELSE c

toLowerCase(s) == [k \in 1..Len(s) |-> LowerChar(s[k])]

RECURSIVE Filter(_, _)
\* the characters of s that are in keep, in order
Filter(s, keep) ==
  IF s = <<>> THEN <<>>
  ELSE IF Head(s) \in keep THEN <<Head(s)>> \o Filter(Tail(s), keep)
  ELSE Filter(Tail(s), keep)

\* .replace(/[^\w\s]/g, '')
RemoveSpecialChars(s) == Filter(s, WordChars \cup SpaceChars)

HasPrefixAt(s, q, w) ==
  /\ q + Len(w) - 1 <= Len(s)
  /\ \A k \in 1..Len(w) : s[q + k - 1] = w[k]

FeatWords ==
  { <<"f","e","a","t">>, <<"f","t">>,
    <<"f","e","a","t","u","r","i","n","g">>,
    <<"p","r","o","d">>,
    <<"p","r","o","d","u","c","e","d"," ","b","y">> }

VersionWords ==
  { <<"r","e","m","i","x">>, <<"e","d","i","t">>,
    <<"v","e","r","s","i","o","n">>, <<"m","i","x">>,
    <<"v","i","p">>, <<"c","o","v","e","r">> }

\* /\s+(w1|w2|...)\s+/ (trail = TRUE) or /\s+(w1|w2|...)/ (trail = FALSE)
\* matches starting at position p; the flag i compares lower-cased characters
RegexMatchesAt(s, p, words, trail) ==
  /\ p \in 1..Len(s)
  /\ s[p] \in SpaceChars
  /\ \E q \in (p + 1)..Len(s) :
       /\ \A k \in p..(q - 1) : s[k] \in SpaceChars
       /\ \E w \in words :
            /\ HasPrefixAt(toLowerCase(s), q, w)
            /\ trail => /\ q + Len(w) <= Len(s)
                        /\ s[q + Len(w)] \in SpaceChars

\* s.replace(/\s+(words)(\s+)?.*/i, ''): the leftmost match is removed up to
\* the end of the string (no line terminator occurs in the model)
StripSegment(s, words, trail) ==
  LET starts == {p \in 1..Len(s) : RegexMatchesAt(s, p, words, trail)}
  IN  IF starts = {} THEN s
      ELSE LET p == CHOOSE x \in starts : \A y \in starts : x <= y
           IN  SubSeq(s, 1, p - 1)

RECURSIVE TrimStart(_)
TrimStart(s) ==
  IF s # <<>> /\ Head(s) \in SpaceChars THEN TrimStart(Tail(s)) ELSE s

RECURSIVE TrimEnd(_)
TrimEnd(s) ==
  IF s # <<>> /\ s[Len(s)] \in SpaceChars
    THEN TrimEnd(SubSeq(s, 1, Len(s) - 1)) ELSE s

trim(s) == TrimEnd(TrimStart(s))

\* !text for an optional string: null, undefined or ''
FalsyText(text) == text = Null \/ Val(text) = <<>>

\* mutant: the version qualifiers are kept
normalizeText_KeepVersion(text) ==
  IF FalsyText(text) THEN <<>>
  ELSE trim(StripSegment(RemoveSpecialChars(toLowerCase(Val(text))),
                         FeatWords, TRUE))

\* mutant: a version qualifier is removed only when white space follows it
normalizeText_VersionThenSpace(text) ==
  IF FalsyText(text) THEN <<>>
  ELSE trim(StripSegment(
              StripSegment(RemoveSpecialChars(toLowerCase(Val(text))),
                           FeatWords, TRUE),
              VersionWords, TRUE))

\* the inner function normalizeText of normalizeSongInfo
normalizeText(text) ==
  IF FalsyText(text) THEN <<>>
  ELSE trim(StripSegment(
              StripSegment(RemoveSpecialChars(toLowerCase(Val(text))),
                           FeatWords, TRUE),
              VersionWords, FALSE))

normalizeSongInfo(title, artist) ==
  normalizeText(title) \o <<" ">> \o normalizeText(artist)

(***************************************************************************)
(* Levenshtein distance and similarity                                     *)
(***************************************************************************)
Min2(a, b) == IF a <= b THEN a ELSE b
Min3(a, b, c) == Min2(a, Min2(b, c))
Max2(a, b) == IF a >= b THEN a ELSE b
Abs(a) == IF a < 0 THEN 0 - a ELSE a

\* cost of turning s1[i] into s2[j]
SubstCost(s1, s2, i, j) == IF s1[i] = s2[j] THEN 0 ELSE 1

RECURSIVE LevRow(_, _, _, _, _)
\* row i of the matrix, built left to right: prev is row i-1 (index j+1 holds
\* matrix[i-1][j]), acc holds matrix[i][0..j-1]
LevRow(s1, s2, i, prev, acc) ==
  LET j == Len(acc)
  IN  IF j > Len(s2) THEN acc
      ELSE LevRow(s1, s2, i, prev,
                  Append(acc, Min3(prev[j + 1] + 1,
                                   acc[j] + 1,
                                   prev[j] + SubstCost(s1, s2, i, j))))

RECURSIVE LevRows(_, _, _, _)
LevRows(s1, s2, i, prev) ==
  IF i > Len(s1) THEN prev
  ELSE LevRows(s1, s2, i + 1, LevRow(s1, s2, i, prev, <<i>>))

levenshteinDistance(s1, s2) ==
  LevRows(s1, s2, 1, [j \in 1..(Len(s2) + 1) |-> j - 1])[Len(s2) + 1]

\* exact fractions
Frac(n, d) == [num |-> n, den |-> d]
FracGT(x, n, d) == x.num * d > n * x.den
FracEQ(x, n, d) == x.num * d = n * x.den

\* mutant: the distance is divided by the length of the first string
getSimilarity_ByFirstLength(a, b) ==
  LET maxLength == Max2(Len(a), Len(b))
  IN  IF maxLength = 0 THEN Frac(1, 1)
      ELSE Frac(Len(a) - levenshteinDistance(a, b), Len(a))

getSimilarity(str1, str2) ==
  LET maxLength == Max2(Len(str1), Len(str2))
  IN  IF maxLength = 0 THEN Frac(1, 1)
      ELSE Frac(maxLength - levenshteinDistance(str1, str2), maxLength)

(***************************************************************************)
(* Records (BsmLocalMap, MapInfo, SongDetails)                             *)
(***************************************************************************)
MapInfo(songName, songAuthorName, beatsPerMinute, difficulties) ==
  [songName |-> songName, songAuthorName |-> songAuthorName,
   beatsPerMinute |-> beatsPerMinute, difficulties |-> difficulties]

\* a local map without its path; WithPath gives it the path of its position
LocalMap(hash, mapInfo, songDetails) ==
  [hash |-> hash, path |-> 0, mapInfo |-> mapInfo, songDetails |-> songDetails]

WithPath(batch) == [k \in 1..Len(batch) |-> [batch[k] EXCEPT !.path = k]]

\* a SongDetails block in which every optional field is absent
NoDetails ==
  [duration |-> Null, upVotes |-> Null, downVotes |-> Null, downloads |-> Null,
   ranked |-> FALSE, blRanked |-> FALSE, curated |-> FALSE,
   automapper |-> FALSE, uploader |-> Null]

\* JavaScript truthiness of an optional number
Truthy(x) == x # Null /\ Val(x) # 0

\* typeof x === 'number' ? x : 0
NumberOr0(x) == IF x # Null THEN Val(x) ELSE 0

\* map.songDetails?.duration
DurationOf(m) == IF m.songDetails = Null THEN Null ELSE Val(m.songDetails).duration

(***************************************************************************)
(* estimateMapSize                                                         *)
(***************************************************************************)
baseSize == 200
DifficultySize == 50

estimateMapSize(m) ==
  LET difficultyMultiplier == Len(m.mapInfo.difficulties) * DifficultySize
  IN  baseSize + difficultyMultiplier

(***************************************************************************)
(* groupByHash                                                             *)
(***************************************************************************)
\* mutant: the record a cluster holds has lost its metadata block
NewScored_Stripped(m) ==
  [map |-> [m EXCEPT !.songDetails = Null], score |-> 0, recommended |-> FALSE]

\* { map, score: 0, recommended: false }: map is the input record itself
NewScored(m) == [map |-> m, score |-> 0, recommended |-> FALSE]

\* the positions of batch whose record has hash h, in input order
RECURSIVE SelectByHash(_, _)
SelectByHash(batch, h) ==
  IF batch = <<>> THEN <<>>
  ELSE IF Head(batch).hash = h THEN <<Head(batch)>> \o SelectByHash(Tail(batch), h)
  ELSE SelectByHash(Tail(batch), h)

\* keys of Object.groupBy(maps, m => m.hash) in the order Object.entries
\* lists them: first occurrence (hashes are not array-index strings)
RECURSIVE HashKeys(_, _)
HashKeys(batch, seen) ==
  IF batch = <<>> THEN <<>>
  ELSE IF Head(batch).hash \in seen THEN HashKeys(Tail(batch), seen)
  ELSE <<Head(batch).hash>> \o HashKeys(Tail(batch), seen \cup {Head(batch).hash})

\* mutant: single-occurrence hashes are not skipped
SkipHashGroup_Never(hashMaps) == Len(hashMaps) <= 0

\* mutant: pairs are skipped as well
SkipHashGroup_Pairs(hashMaps) == Len(hashMaps) <= 2

\* hashMaps.length <= 1: no group for this hash
SkipHashGroup(hashMaps) == Len(hashMaps) <= 1

ExactGroup(hashMaps) ==
  [songName |-> hashMaps[1].mapInfo.songName,
   authorName |-> hashMaps[1].mapInfo.songAuthorName,
   maps |-> [k \in 1..Len(hashMaps) |-> NewScored(hashMaps[k])],
   totalSize |-> 0,
   similarity |-> "exact"]

RECURSIVE HashGroupsOf(_, _)
HashGroupsOf(batch, keys) ==
  IF keys = <<>> THEN <<>>
  ELSE LET hashMaps == SelectByHash(batch, Head(keys))
       IN  IF SkipHashGroup(hashMaps) THEN HashGroupsOf(batch, Tail(keys))
           ELSE <<ExactGroup(hashMaps)>> \o HashGroupsOf(batch, Tail(keys))

groupByHash(batch) == HashGroupsOf(batch, HashKeys(batch, {}))

(***************************************************************************)
(* groupBySimilarSong: one comparison of the seed with a candidate         *)
(***************************************************************************)
SongKey(m) == normalizeSongInfo(m.mapInfo.songName, m.mapInfo.songAuthorName)

\* mutant: >= instead of > at the three thresholds
SimilarityLevel_Inclusive(similarity) ==
  IF ~ FracGT(Frac(9, 10), similarity.num, similarity.den) THEN "high"
  ELSE IF ~ FracGT(Frac(8, 10), similarity.num, similarity.den) THEN "medium"
  ELSE IF ~ FracGT(Frac(7, 10), similarity.num, similarity.den) THEN "low"
  ELSE "none"

\* similarityLevel; "none" stands for null
SimilarityLevel(similarity) ==
  IF FracGT(similarity, 9, 10) THEN "high"
  ELSE IF FracGT(similarity, 8, 10) THEN "medium"
  ELSE IF FracGT(similarity, 7, 10) THEN "low"
  ELSE "none"

\* mutant: the difference is taken relative to the other tempo
BpmDiffers_RelativeToOther(seedBpm, otherBpm) ==
  LET bpmDiff == Abs(seedBpm - otherBpm)
  IN  bpmDiff > 10 /\ bpmDiff * 10 > otherBpm

\* bpmDiff > 10 && (bpmDiff / seedBpm) > 0.1, for seedBpm > 0
BpmDiffers(seedBpm, otherBpm) ==
  LET bpmDiff == Abs(seedBpm - otherBpm)
  IN  bpmDiff > 10 /\ bpmDiff * 10 > seedBpm

\* isSimilar after the BPM check
BpmCheck(seed, other, level) ==
  IF Truthy(seed.mapInfo.beatsPerMinute) /\ Truthy(other.mapInfo.beatsPerMinute)
    THEN ~ ( /\ BpmDiffers(Val(seed.mapInfo.beatsPerMinute),
                           Val(other.mapInfo.beatsPerMinute))
             /\ level # "high" )
    ELSE TRUE

\* mutant: >= instead of >
DurationDiffers_AtLeast(seedDuration, otherDuration) ==
  LET durationDiff == Abs(seedDuration - otherDuration)
      threshold100 == Max2(15 * 100, seedDuration * 15)
  IN  durationDiff * 100 >= threshold100

\* durationDiff > Math.max(15, seedDuration * 0.15), in hundredths
DurationDiffers(seedDuration, otherDuration) ==
  LET durationDiff == Abs(seedDuration - otherDuration)
      threshold100 == Max2(15 * 100, seedDuration * 15)
  IN  durationDiff * 100 > threshold100

\* isSimilar after the duration check, given isSimilar before it
DurationCheck(seed, other, level, isSimilar) ==
  IF isSimilar /\ Truthy(DurationOf(seed)) /\ Truthy(DurationOf(other))
    THEN ~ ( /\ DurationDiffers(Val(DurationOf(seed)), Val(DurationOf(other)))
             /\ level # "high" )
    ELSE isSimilar

\* similarityLevel of the comparison of other with the seed
LevelOf(seed, other) ==
  SimilarityLevel(getSimilarity(SongKey(seed), SongKey(other)))

\* the body of the inner loop after the processedHashes test: is compareMap
\* pushed onto similarMaps?
IsSimilar(seed, other) ==
  LET level == LevelOf(seed, other)
  IN  IF level = "none" THEN FALSE
      ELSE DurationCheck(seed, other, level, BpmCheck(seed, other, level))

\* mutant: a seed without a match is emitted as a group
EmitSongGroup_Always(similarMaps) == Len(similarMaps) > 0

\* similarMaps.length > 1
EmitSongGroup(similarMaps) == Len(similarMaps) > 1

\* mutant: no hash is ever taken as processed
IsProcessed_Never(hash, processed) == FALSE

\* processedHashes.has(hash)
IsProcessed(hash, processed) == hash \in processed

\* mutant: the group is classified by the weakest tier among its members
SongGroup_WeakestTier(seed, similarMaps) ==
  LET levels == {LevelOf(seed, similarMaps[k].map) : k \in 2..Len(similarMaps)}
  IN  [songName |-> seed.mapInfo.songName,
       authorName |-> seed.mapInfo.songAuthorName,
       maps |-> similarMaps,
       totalSize |-> 0,
       similarity |-> IF "low" \in levels THEN "low"
                      ELSE IF "medium" \in levels THEN "medium" ELSE "high"]

\* groups.push({..., similarity: groupSimilarity}) with groupSimilarity
\* assigned 'high' and never reassigned
SongGroup(seed, similarMaps) ==
  [songName |-> seed.mapInfo.songName,
   authorName |-> seed.mapInfo.songAuthorName,
   maps |-> similarMaps,
   totalSize |-> 0,
   similarity |-> "high"]

(***************************************************************************)
(* rankMapGroups                                                           *)
(***************************************************************************)
\* scores are kept in units of 1 / ScoreUnit
ScoreUnit == 20

\* the non-finite values of the type number
Infinity == 1000000000
NaN == -1000000001

\* the global isNaN and isFinite on a number
isNaN(x) == x = NaN
isFinite(x) == x \notin {NaN, Infinity, -Infinity}

\* a + b
Plus(a, b) ==
  IF isNaN(a) \/ isNaN(b) THEN NaN
  ELSE IF isFinite(a) /\ isFinite(b) THEN a + b
  ELSE IF isFinite(a) THEN b
  ELSE IF isFinite(b) \/ a = b THEN a
  ELSE NaN

\* a - b
Minus(a, b) == IF isNaN(b) THEN NaN ELSE Plus(a, -b)

\* a * k for a finite k > 0
Times(a, k) == IF isFinite(a) THEN a * k ELSE a

\* v > 0
Positive(v) == ~ isNaN(v) /\ v > 0

\* mutant: the curated bonus is given only when the ranked bonus is not
DetailsScore_Gated(d) ==
  LET upVotes == NumberOr0(d.upVotes)
      downVotes == NumberOr0(d.downVotes)
      downloads == NumberOr0(d.downloads)
      flags == (IF d.ranked \/ d.blRanked THEN 500 * ScoreUnit
                ELSE IF d.curated THEN 100 * ScoreUnit ELSE 0)
               + (IF d.uploader # Null /\ Val(d.uploader).verified
                  THEN 50 * ScoreUnit ELSE 0)
               - (IF d.automapper THEN 300 * ScoreUnit ELSE 0)
  IN  Plus(Plus(Times(Minus(upVotes, downVotes), 2 * ScoreUnit), downloads), flags)

\* the score after the songDetails block: (upVotes - downVotes) * 2, then
\* downloads / 20, then the flags (finite amounts)
DetailsScore(d) ==
  LET upVotes == NumberOr0(d.upVotes)
      downVotes == NumberOr0(d.downVotes)
      downloads == NumberOr0(d.downloads)
      flags == (IF d.ranked \/ d.blRanked THEN 500 * ScoreUnit ELSE 0)
               + (IF d.curated THEN 100 * ScoreUnit ELSE 0)
               + (IF d.uploader # Null /\ Val(d.uploader).verified
                  THEN 50 * ScoreUnit ELSE 0)
               - (IF d.automapper THEN 300 * ScoreUnit ELSE 0)
  IN  Plus(Plus(Times(Minus(upVotes, downVotes), 2 * ScoreUnit), downloads), flags)

\* map.mapInfo.difficulties.length >= 5 ? 100 : 0
DifficultyBonus(m) ==
  IF Len(m.mapInfo.difficulties) >= 5 THEN 100 * ScoreUnit ELSE 0

\* the local variable score at the end of the loop body
ScoreOf(m) ==
  Plus(IF m.songDetails # Null THEN DetailsScore(Val(m.songDetails)) ELSE 0,
       DifficultyBonus(m))

\* item.score = isNaN(score) ? 0 : score
StoredScore(score) == IF isNaN(score) THEN 0 ELSE score

\* mutant: the comparator of an ascending sort
CompareScored_Ascending(a, b) == Minus(StoredScore(a.score), StoredScore(b.score))

\* the comparator (a, b) => scoreB - scoreA, each score through
\* isNaN(x) ? 0 : x
CompareScored(a, b) == Minus(StoredScore(b.score), StoredScore(a.score))

RECURSIVE InsertScored_Unstable(_, _)
\* mutant: an unstable sort, x goes before the elements it ties with
InsertScored_Unstable(s, x) ==
  IF s = <<>> THEN <<x>>
  ELSE IF ~ isNaN(CompareScored(Head(s), x)) /\ CompareScored(Head(s), x) >= 0
       THEN <<x>> \o s
  ELSE <<Head(s)>> \o InsertScored_Unstable(Tail(s), x)

\* x inserted into the sorted sequence s behind every element that the
\* comparator does not put after x (Array.prototype.sort is stable; a NaN
\* from the comparator counts as 0)
RECURSIVE InsertScored(_, _)
InsertScored(s, x) ==
  IF s = <<>> THEN <<x>>
  ELSE IF Positive(CompareScored(Head(s), x)) THEN <<x>> \o s
  ELSE <<Head(s)>> \o InsertScored(Tail(s), x)

RECURSIVE SortScored(_, _)
SortScored(todo, done) ==
  IF todo = <<>> THEN done
  ELSE SortScored(Tail(todo), InsertScored(done, Head(todo)))

\* group.maps[0].recommended = true
MarkRecommended(ms) ==
  IF Len(ms) > 0 THEN [ms EXCEPT ![1].recommended = TRUE] ELSE ms

RECURSIVE SumSizes(_)
SumSizes(ms) ==
  IF ms = <<>> THEN 0 ELSE estimateMapSize(Head(ms).map) + SumSizes(Tail(ms))

\* mutant: the group is named after the member the sort puts first
RankGroup_NamedAfterBest(group) ==
  LET scored == [k \in 1..Len(group.maps) |->
                   [group.maps[k] EXCEPT
                      !.score = StoredScore(ScoreOf(group.maps[k].map))]]
      ranked == MarkRecommended(SortScored(scored, <<>>))
  IN  [group EXCEPT !.maps = ranked, !.totalSize = SumSizes(ranked),
                    !.songName = ranked[1].map.mapInfo.songName,
                    !.authorName = ranked[1].map.mapInfo.songAuthorName]

\* mutant: totalSize leaves the recommended member out
RankGroup_SizeOfDuplicates(group) ==
  LET scored == [k \in 1..Len(group.maps) |->
                   [group.maps[k] EXCEPT
                      !.score = StoredScore(ScoreOf(group.maps[k].map))]]
      ranked == MarkRecommended(SortScored(scored, <<>>))
  IN  [group EXCEPT !.maps = ranked, !.totalSize = SumSizes(Tail(ranked))]

RankGroup(group) ==
  LET scored == [k \in 1..Len(group.maps) |->
                   [group.maps[k] EXCEPT
                      !.score = StoredScore(ScoreOf(group.maps[k].map))]]
      ranked == MarkRecommended(SortScored(scored, <<>>))
  IN  [group EXCEPT !.maps = ranked, !.totalSize = SumSizes(ranked)]

rankMapGroups(gs) == [g \in 1..Len(gs) |-> RankGroup(gs[g])]

(***************************************************************************)
(* the totals of findSimilarMaps                                           *)
(***************************************************************************)
\* group.maps.filter(m => !m.recommended)
RECURSIVE NotRecommended(_)
NotRecommended(ms) ==
  IF ms = <<>> THEN <<>>
  ELSE IF ~ Head(ms).recommended THEN <<Head(ms)>> \o NotRecommended(Tail(ms))
  ELSE NotRecommended(Tail(ms))

RECURSIVE CountDuplicates_All(_)
\* mutant: the recommended member is counted too
CountDuplicates_All(gs) ==
  IF gs = <<>> THEN 0
  ELSE Len(Head(gs).maps) + CountDuplicates_All(Tail(gs))

RECURSIVE CountDuplicates(_)
CountDuplicates(gs) ==
  IF gs = <<>> THEN 0
  ELSE Len(NotRecommended(Head(gs).maps)) + CountDuplicates(Tail(gs))

RECURSIVE SpaceSaving(_)
SpaceSaving(gs) ==
  IF gs = <<>> THEN 0
  ELSE SumSizes(NotRecommended(Head(gs).maps)) + SpaceSaving(Tail(gs))

(***************************************************************************)
(* Input batches                                                           *)
(***************************************************************************)
\* largest batch of the general specification
MaxMaps == 3

\* the difficulty tags (diff.difficulty) and a difficulties array of the
\* first n of them
DifficultyTags == <<"Easy", "Normal", "Hard", "Expert", "ExpertPlus">>
Spread(n) == SubSeq(DifficultyTags, 1, n)

\* difficulties arrays in which a tag occurs in several entries
TwoTagsFiveEntries == <<"Expert", "ExpertPlus", "Expert", "ExpertPlus", "Expert">>
FiveTagsSixEntries == Spread(5) \o <<"Expert">>

TFoobar == <<"F","o","o","b","a","r">>
TFoobarRemix == <<"F","o","o","b","a","r"," ","(","R","e","m","i","x",")">>
TFoobaz == <<"f","o","o","b","a","z">>
TFoobzz == <<"f","o","o","b","z","z">>
TQuuxly == <<"q","u","u","x","l","y">>
TFooqzz == <<"f","o","o","q","z","z">>
AuthorX == <<"X">>
AuthorY == <<"y">>

\* the records of the general specification: three hashes; titles that are
\* identical after normalisation, one, two and more edits apart; tempos and
\* durations that agree and that contradict; scores that differ and that tie
Pool ==
  { LocalMap("h1", MapInfo(Some(TFoobar), Some(AuthorX), Some(120), Spread(3)), Null),
    LocalMap("h1", MapInfo(Some(TFoobar), Some(AuthorX), Some(120), Spread(3)),
             Some([NoDetails EXCEPT !.upVotes = Some(5), !.duration = Some(100)])),
    LocalMap("h1", MapInfo(Some(TFoobzz), Some(AuthorX), Null, Spread(5)), Null),
    LocalMap("h2", MapInfo(Some(TFoobarRemix), Some(AuthorX), Some(140), Spread(5)),
             Some([NoDetails EXCEPT !.ranked = TRUE, !.duration = Some(100)])),
    LocalMap("h2", MapInfo(Some(TFoobaz), Some(AuthorX), Some(140), Spread(3)), Null),
    LocalMap("h2", MapInfo(Some(TFoobaz), Some(AuthorX), Some(125), Spread(5)),
             Some([NoDetails EXCEPT !.duration = Some(200)])),
    LocalMap("h3", MapInfo(Some(TFoobzz), Some(AuthorX), Null, Spread(3)),
             Some([NoDetails EXCEPT !.downloads = Some(30), !.duration = Some(100)])),
    LocalMap("h3", MapInfo(Some(TFoobar), Some(AuthorX), Null, Spread(3)),
             Some([NoDetails EXCEPT !.automapper = TRUE, !.duration = Some(200)])),
    LocalMap("h3", MapInfo(Some(TQuuxly), Some(AuthorY), Some(120), Spread(0)), Null),
    LocalMap("h3", MapInfo(Null, Null, Null, Spread(5)), Null) }

\* titles of the pair specification: with the author "x" the keys are 10 or
\* 11 characters long, so that an edit distance of 1, 2 or 3 is exactly 10%,
\* 20% or 30% of the longer key, or lies strictly between the thresholds
TAbc8 == <<"a","b","c","d","e","f","g","h">>
TAbc9 == <<"a","b","c","d","e","f","g","h","i">>
TAbc8Remix == <<"A","b","c","d","e","f","g","h"," ","(","R","e","m","i","x",")">>
TAbc8Edit1 == <<"a","b","c","d","e","f","g","z">>
TAbc8Edit2 == <<"a","b","c","d","e","f","y","z">>
TAbc8Edit3 == <<"a","b","c","d","e","x","y","z">>
AuthorLowerX == <<"x">>

PairSeedTitles == {TAbc8, TAbc9}
PairOtherTitles == {TAbc8, TAbc9, TAbc8Remix, TAbc8Edit1, TAbc8Edit2, TAbc8Edit3}
PairSeedBpms == {Null, Some(100), Some(111), Some(200)}
PairOtherBpms == {Null, Some(100), Some(110), Some(111), Some(220), Some(221)}
\* songDetails: absent, or present with the duration absent, 0 or positive
PairSeedDetails ==
  {Null} \cup {Some([NoDetails EXCEPT !.duration = Some(d)]) : d \in {0, 100, 200}}
PairOtherDetails ==
  {Null, Some(NoDetails)}
    \cup {Some([NoDetails EXCEPT !.duration = Some(d)]) :
            d \in {0, 100, 115, 116, 230, 231}}

\* a seed and one candidate with another hash
PairBatches ==
  { << LocalMap("h1", MapInfo(Some(t1), Some(AuthorLowerX), b1, Spread(3)), d1),
       LocalMap("h2", MapInfo(Some(t2), Some(AuthorLowerX), b2, Spread(3)), d2) >> :
      <<t1, b1, d1, t2, b2, d2>> \in
        PairSeedTitles \X PairSeedBpms \X PairSeedDetails
          \X PairOtherTitles \X PairOtherBpms \X PairOtherDetails }

\* metadata blocks of the score specification
ScoreDetails ==
  {Null} \cup
  { Some([duration |-> Null, upVotes |-> up, downVotes |-> down,
          downloads |-> dl, ranked |-> f[1], blRanked |-> f[2],
          curated |-> f[3], automapper |-> f[4], uploader |-> upl]) :
      <<up, down, dl, f, upl>> \in
        {Null, Some(0), Some(7)} \X {Null, Some(2)} \X {Null, Some(30), Some(50)}
          \X (BOOLEAN \X BOOLEAN \X BOOLEAN \X BOOLEAN)
          \X {Null, Some([verified |-> FALSE]), Some([verified |-> TRUE])} }

\* two records with one hash (they always form an exact cluster); the first
\* carries any metadata block and 4, 5 or 6 difficulty entries, with and
\* without a repeated tag
ScoreDifficulties ==
  {Spread(4), Spread(5), TwoTagsFiveEntries, FiveTagsSixEntries}

ScoreBatches ==
  { << LocalMap("h1", MapInfo(Some(TFoobar), Some(AuthorX), Null, n), d),
       LocalMap("h1", MapInfo(Some(TFoobar), Some(AuthorX), Null, Spread(3)), Null) >> :
      <<n, d>> \in ScoreDifficulties \X ScoreDetails }

\* metadata blocks whose vote and download counts are finite, NaN,
\* Infinity or -Infinity (all of them of typeof 'number')
NonFiniteDetails ==
  { [NoDetails EXCEPT !.upVotes = up, !.downVotes = down, !.downloads = dl,
                      !.ranked = r] :
      <<up, down, dl, r>> \in
        {Some(7), Some(NaN), Some(Infinity), Some(-Infinity)}
          \X {Null, Some(2), Some(NaN), Some(Infinity)}
          \X {Null, Some(30), Some(Infinity), Some(-Infinity)}
          \X BOOLEAN }

\* two records with one hash, the first with any of these blocks, the second
\* without a block, with 7 up votes or with Infinity up votes
NonFiniteBatches ==
  { << LocalMap("h1", MapInfo(Some(TFoobar), Some(AuthorX), Null, n), Some(d1)),
       LocalMap("h1", MapInfo(Some(TFoobar), Some(AuthorX), Null, Spread(3)), d2) >> :
      <<n, d1, d2>> \in
        {Spread(3), Spread(5)} \X NonFiniteDetails
          \X {Null, Some([NoDetails EXCEPT !.upVotes = Some(7)]),
                    Some([NoDetails EXCEPT !.upVotes = Some(Infinity)])} }

TFoo == <<"F","o","o">>
TFooRemix == <<"F","o","o"," ","(","R","e","m","i","x",")">>

\* the batch [A, B, C]: A and B have hash 1, title Foo, author X and 3
\* difficulties, C has hash 2, title Foo (Remix), author X, 5 difficulties
\* and ranked = true; tempos and durations are free, A and B may carry a
\* metadata block with a duration and nothing else
ExampleBatches ==
  { << LocalMap("1", MapInfo(Some(TFoo), Some(AuthorX), b1, Spread(3)), d1),
       LocalMap("1", MapInfo(Some(TFoo), Some(AuthorX), b1, Spread(3)), d2),
       LocalMap("2", MapInfo(Some(TFooRemix), Some(AuthorX), b3, Spread(5)),
                Some([NoDetails EXCEPT !.ranked = TRUE, !.duration = t3])) >> :
      <<b1, b3, d1, d2, t3>> \in
        {Null, Some(120)} \X {Null, Some(120), Some(170)}
          \X {Null, Some([NoDetails EXCEPT !.duration = Some(200)])}
          \X {Null, Some([NoDetails EXCEPT !.duration = Some(200)])}
          \X {Null, Some(200), Some(400)} }

\* the records of the greedy specification: four hashes and four titles,
\* Foobar and foobaz one edit apart, foobaz and fooqzz two, Foobar and
\* fooqzz three (of 8 characters of the key), quuxly unlike all; no tempo,
\* no metadata
MaxGreedyMaps == 4
GreedyPool ==
  { LocalMap("h1", MapInfo(Some(TFoobar), Some(AuthorX), Null, Spread(3)), Null),
    LocalMap("h2", MapInfo(Some(TFoobar), Some(AuthorX), Null, Spread(3)), Null),
    LocalMap("h3", MapInfo(Some(TQuuxly), Some(AuthorX), Null, Spread(3)), Null),
    LocalMap("h4", MapInfo(Some(TQuuxly), Some(AuthorX), Null, Spread(3)), Null),
    LocalMap("h1", MapInfo(Some(TQuuxly), Some(AuthorX), Null, Spread(3)), Null),
    LocalMap("h3", MapInfo(Some(TFoobaz), Some(AuthorX), Null, Spread(3)), Null),
    LocalMap("h4", MapInfo(Some(TFooqzz), Some(AuthorX), Null, Spread(3)), Null) }

\* the records of the panel specification: two copies of one song, one of
\* them with 5 difficulties, and a ranked remix with another hash
MaxPanelMaps == 3
PanelPool ==
  { LocalMap("h1", MapInfo(Some(TFoobar), Some(AuthorX), Null, Spread(3)), Null),
    LocalMap("h1", MapInfo(Some(TFoobar), Some(AuthorX), Null, Spread(5)), Null),
    LocalMap("h2", MapInfo(Some(TFoobarRemix), Some(AuthorX), Null, Spread(5)),
             Some([NoDetails EXCEPT !.ranked = TRUE])) }

\* longest argument of getSimilarity in the string specification
MaxStrLen == 3
StrAlphabet == {"a", "b"}
Strings == UNION {[1..n -> StrAlphabet] : n \in 0..MaxStrLen}

\* titles of the key specification: a stem of letters and digits, alone or
\* followed by a space and a qualifier segment
MaxStemLen == 2
StemAlphabet == {"S", "o", "7"}
TitleStems ==
  UNION {[1..n -> StemAlphabet] : n \in 1..MaxStemLen}
    \cup {<<"S","o","n","g">>, <<"M","i","x">>, <<"f","t">>}

\* the qualifiers in lower case and three of them in other spellings
QualifierSpellings ==
  VersionWords \cup {<<"R","e","m","i","x">>, <<"V","I","P">>, <<"C","o","V","e","R">>}

\* punctuation before and behind the qualifier
Wrappers ==
  { <<<<>>, <<>>>>, <<<<"(">>, <<")">>>>, <<<<"[">>, <<"]">>>>,
    <<<<"-"," ">>, <<>>>>, <<<<"(">>, <<"!">>>> }

\* text behind the qualifier segment
Trailers ==
  { <<>>, <<"e","d">>, <<" ","2","0","2","4">>,
    <<" ","f","e","a","t"," ","Z","!">> }

QualifierSegments ==
  { w[1] \o q \o w[2] \o t :
      <<w, q, t>> \in Wrappers \X QualifierSpellings \X Trailers }

QualifiedTitles ==
  { st \o <<" ">> \o seg : <<st, seg>> \in TitleStems \X QualifierSegments }

\* every text over letters, a digit, underscore, punctuation and white space
MaxTextLen == 3
TextAlphabet == {"A", "b", "1", "_", "!", " "}
Texts == UNION {[1..n -> TextAlphabet] : n \in 0..MaxTextLen}

NormTitles ==
  {Null} \cup {Some(t) : t \in TitleStems \cup QualifiedTitles \cup Texts}

NormArtists ==
  { Null, Some(<<>>),
    Some(<<"A","r","t","i","s","t">>), Some(<<"a","r","t","i","s","t">>),
    Some(<<"D","J"," ","M","i","x">>), Some(<<"A","_","b","!"," ","&"," ","c">>) }

Batches(pool, maxLen) == UNION {[1..n -> pool] : n \in 0..maxLen}

(***************************************************************************)
(* State                                                                   *)
(***************************************************************************)
VARIABLES
  maps,             \* the input batch of findSimilarMaps
  pc,               \* the position in findSimilarMaps
  hashGroups,       \* const hashGroups
  processedHashes,  \* groupBySimilarSong: processedHashes
  i,                \* groupBySimilarSong: index of the seed (from 1)
  j,                \* groupBySimilarSong: index of the candidate (from 1)
  similarMaps,      \* groupBySimilarSong: similarMaps of the current seed
  similarityLevel,  \* groupBySimilarSong: similarityLevel of the last
                    \* comparison ("none" for null, "unset" outside one)
  songGroups,       \* groupBySimilarSong: groups
  analyzedGroups,   \* const analyzedGroups
  result,           \* the SimilarMapsResult emitted, Null before
  str1, str2,       \* arguments of getSimilarity (string specification)
  simOut,           \* results of getSimilarity, Null before
  title, artist,    \* arguments of normalizeSongInfo (key specification)
  key,              \* result of normalizeSongInfo, Null before
  selectedGroups,   \* panel: selectedGroups, a set of group indexes (from 0)
  selectedMaps,     \* panel: selectedMaps, a set of ids groupIndex_mapIndex
  deleteMapsArg     \* panel: the mapsToDelete handed to deleteMaps, as the
                    \* set of the <<groupIndex, mapIndex>> whose map was
                    \* pushed; Null while deleteMaps has not been called

vars == <<maps, pc, hashGroups, processedHashes, i, j, similarMaps,
          similarityLevel, songGroups, analyzedGroups, result,
          str1, str2, simOut, title, artist, key,
          selectedGroups, selectedMaps, deleteMapsArg>>

panelVars == <<selectedGroups, selectedMaps, deleteMapsArg>>

strVars == <<str1, str2, simOut, title, artist, key>>

\* the state at the call findSimilarMaps(batch)
Start(batch) ==
  /\ maps = WithPath(batch)
  /\ pc = "groupByHash"
  /\ hashGroups = <<>>
  /\ processedHashes = {}
  /\ i = 1
  /\ j = 1
  /\ similarMaps = <<>>
  /\ similarityLevel = "unset"
  /\ songGroups = <<>>
  /\ analyzedGroups = <<>>
  /\ result = Null
  /\ str1 = <<>>
  /\ str2 = <<>>
  /\ simOut = Null
  /\ title = Null
  /\ artist = Null
  /\ key = Null
  /\ selectedGroups = {}
  /\ selectedMaps = {}
  /\ deleteMapsArg = Null

Init == \E batch \in Batches(Pool, MaxMaps) : Start(batch)

(***************************************************************************)
(* findSimilarMaps, step by step                                           *)
(***************************************************************************)
\* const hashGroups = this.groupByHash(maps)
GroupByHash ==
  /\ pc = "groupByHash"
  /\ hashGroups' = groupByHash(maps)
  /\ pc' = "songOuter"
  /\ UNCHANGED <<maps, processedHashes, i, j, similarMaps, similarityLevel,
                 songGroups, analyzedGroups, result, strVars, panelVars>>

\* groupBySimilarSong: one iteration of the outer loop up to the inner loop,
\* or the end of the outer loop
SongOuter ==
  /\ pc = "songOuter"
  /\ IF i > Len(maps)
       THEN /\ pc' = "rank"
            /\ UNCHANGED <<i, j, processedHashes, similarMaps>>
       ELSE IF IsProcessed(maps[i].hash, processedHashes)
         THEN /\ i' = i + 1
              /\ UNCHANGED <<pc, j, processedHashes, similarMaps>>
         ELSE /\ similarMaps' = <<NewScored(maps[i])>>
              /\ processedHashes' = processedHashes \cup {maps[i].hash}
              /\ j' = i + 1
              /\ pc' = "songInner"
              /\ UNCHANGED i
  /\ UNCHANGED <<maps, hashGroups, similarityLevel, songGroups, analyzedGroups,
                 result, strVars, panelVars>>

\* mutant: the candidate is compared with the member added last, not with
\* the seed
SongInner_AgainstLast ==
  /\ pc = "songInner"
  /\ IF j > Len(maps)
       THEN /\ songGroups' = IF EmitSongGroup(similarMaps)
                               THEN Append(songGroups, SongGroup(maps[i], similarMaps))
                               ELSE songGroups
            /\ i' = i + 1
            /\ pc' = "songOuter"
            /\ similarityLevel' = "unset"
            /\ UNCHANGED <<j, processedHashes, similarMaps>>
       ELSE /\ j' = j + 1
            /\ IF IsProcessed(maps[j].hash, processedHashes)
                 THEN /\ similarityLevel' = "unset"
                      /\ UNCHANGED <<similarMaps, processedHashes>>
                 ELSE /\ similarityLevel' =
                           LevelOf(similarMaps[Len(similarMaps)].map, maps[j])
                      /\ IF IsSimilar(similarMaps[Len(similarMaps)].map, maps[j])
                           THEN /\ similarMaps' = Append(similarMaps, NewScored(maps[j]))
                                /\ processedHashes' =
                                     processedHashes \cup {maps[j].hash}
                           ELSE UNCHANGED <<similarMaps, processedHashes>>
            /\ UNCHANGED <<i, pc, songGroups>>
  /\ UNCHANGED <<maps, hashGroups, analyzedGroups, result, strVars, panelVars>>

\* groupBySimilarSong: one iteration of the inner loop, or its end followed
\* by the push of the group
SongInner ==
  /\ pc = "songInner"
  /\ IF j > Len(maps)
       THEN /\ songGroups' = IF EmitSongGroup(similarMaps)
                               THEN Append(songGroups, SongGroup(maps[i], similarMaps))
                               ELSE songGroups
            /\ i' = i + 1
            /\ pc' = "songOuter"
            /\ similarityLevel' = "unset"
            /\ UNCHANGED <<j, processedHashes, similarMaps>>
       ELSE /\ j' = j + 1
            /\ IF IsProcessed(maps[j].hash, processedHashes)
                 THEN /\ similarityLevel' = "unset"
                      /\ UNCHANGED <<similarMaps, processedHashes>>
                 ELSE /\ similarityLevel' = LevelOf(maps[i], maps[j])
                      /\ IF IsSimilar(maps[i], maps[j])
                           THEN /\ similarMaps' = Append(similarMaps, NewScored(maps[j]))
                                /\ processedHashes' =
                                     processedHashes \cup {maps[j].hash}
                           ELSE UNCHANGED <<similarMaps, processedHashes>>
            /\ UNCHANGED <<i, pc, songGroups>>
  /\ UNCHANGED <<maps, hashGroups, analyzedGroups, result, strVars, panelVars>>

\* mutant: the song groups come first
CombinedGroups_SongFirst(hashGs, songGs) == songGs \o hashGs

\* const combinedGroups = [...hashGroups, ...songGroups]
CombinedGroups(hashGs, songGs) == hashGs \o songGs

\* const analyzedGroups = this.rankMapGroups(combinedGroups)
RankMapGroups ==
  /\ pc = "rank"
  /\ analyzedGroups' = rankMapGroups(CombinedGroups(hashGroups, songGroups))
  /\ pc' = "totals"
  /\ UNCHANGED <<maps, hashGroups, processedHashes, i, j, similarMaps,
                 similarityLevel, songGroups, result, strVars, panelVars>>

\* the two reduces and the returned object
CalculateTotals ==
  /\ pc = "totals"
  /\ result' = Some([groups |-> analyzedGroups,
                     totalDuplicates |-> CountDuplicates(analyzedGroups),
                     potentialSpaceSaving |-> SpaceSaving(analyzedGroups)])
  /\ pc' = "done"
  /\ UNCHANGED <<maps, hashGroups, processedHashes, i, j, similarMaps,
                 similarityLevel, songGroups, analyzedGroups, strVars, panelVars>>

InitPair == \E batch \in PairBatches : Start(batch)

InitScore == \E batch \in ScoreBatches : Start(batch)

InitExample == \E batch \in ExampleBatches : Start(batch)

InitGreedy == \E batch \in Batches(GreedyPool, MaxGreedyMaps) : Start(batch)

InitPanel == \E batch \in Batches(PanelPool, MaxPanelMaps) : Start(batch)

InitNonFinite == \E batch \in NonFiniteBatches : Start(batch)

\* the state at the call getSimilarity(a, b)
InitSim ==
  /\ maps = <<>>
  /\ pc = "getSimilarity"
  /\ hashGroups = <<>>
  /\ processedHashes = {}
  /\ i = 1
  /\ j = 1
  /\ similarMaps = <<>>
  /\ similarityLevel = "unset"
  /\ songGroups = <<>>
  /\ analyzedGroups = <<>>
  /\ result = Null
  /\ str1 \in Strings
  /\ str2 \in Strings
  /\ simOut = Null
  /\ title = Null
  /\ artist = Null
  /\ key = Null
  /\ selectedGroups = {}
  /\ selectedMaps = {}
  /\ deleteMapsArg = Null

\* getSimilarity applied to (str1, str2), to (str2, str1) and to (str1, str1)
ApplyGetSimilarity ==
  /\ pc = "getSimilarity"
  /\ simOut' = Some([ab |-> getSimilarity(str1, str2),
                     ba |-> getSimilarity(str2, str1),
                     aa |-> getSimilarity(str1, str1)])
  /\ pc' = "returned"
  /\ UNCHANGED <<maps, hashGroups, processedHashes, i, j, similarMaps,
                 similarityLevel, songGroups, analyzedGroups, result,
                 str1, str2, title, artist, key, panelVars>>

NextSim == ApplyGetSimilarity

\* the state at the call normalizeSongInfo(title, artist)
InitNorm ==
  /\ maps = <<>>
  /\ pc = "normalizeSongInfo"
  /\ hashGroups = <<>>
  /\ processedHashes = {}
  /\ i = 1
  /\ j = 1
  /\ similarMaps = <<>>
  /\ similarityLevel = "unset"
  /\ songGroups = <<>>
  /\ analyzedGroups = <<>>
  /\ result = Null
  /\ str1 = <<>>
  /\ str2 = <<>>
  /\ simOut = Null
  /\ title \in NormTitles
  /\ artist \in NormArtists
  /\ key = Null
  /\ selectedGroups = {}
  /\ selectedMaps = {}
  /\ deleteMapsArg = Null

ApplyNormalizeSongInfo ==
  /\ pc = "normalizeSongInfo"
  /\ key' = Some(normalizeSongInfo(title, artist))
  /\ pc' = "returned"
  /\ UNCHANGED <<maps, hashGroups, processedHashes, i, j, similarMaps,
                 similarityLevel, songGroups, analyzedGroups, result,
                 str1, str2, simOut, title, artist, panelVars>>

NextNorm == ApplyNormalizeSongInfo

(***************************************************************************)
(* SimilarMapsPanel: the selections and deleteSelectedDuplicates           *)
(***************************************************************************)
DigitSeq == <<"0","1","2","3","4","5","6","7","8","9">>

RECURSIVE NumberToString(_)
\* `${n}` for an index n
NumberToString(n) ==
  IF n < 10 THEN <<DigitSeq[n + 1]>>
  ELSE NumberToString(n \div 10) \o <<DigitSeq[(n % 10) + 1]>>

\* `${groupIndex}_${mapIndex}`
MapId(groupIndex, mapIndex) ==
  NumberToString(groupIndex) \o <<"_">> \o NumberToString(mapIndex)

\* id.startsWith(prefix)
startsWith(id, prefix) == HasPrefixAt(id, 1, prefix)

RECURSIVE StringToNumber(_)
\* Number(s) for a string of decimal digits
StringToNumber(s) ==
  IF s = <<>> THEN 0
  ELSE 10 * StringToNumber(SubSeq(s, 1, Len(s) - 1))
       + (CHOOSE d \in 0..9 : DigitSeq[d + 1] = s[Len(s)])

\* mapId.split('_').map(Number), for an id with one underscore
SplitMapId(mapId) ==
  LET u == CHOOSE k \in 1..Len(mapId) : mapId[k] = "_"
  IN  <<StringToNumber(SubSeq(mapId, 1, u - 1)),
        StringToNumber(SubSeq(mapId, u + 1, Len(mapId)))>>

\* the first loop for one selected group: its members that are neither
\* individually selected nor recommended
GroupDuplicates(groups, groupIndex, selMaps) ==
  LET group == groups[groupIndex + 1]
  IN  { <<groupIndex, mapIndex>> : mapIndex \in
          { m \in 0..(Len(group.maps) - 1) :
              /\ MapId(groupIndex, m) \notin selMaps
              /\ ~ group.maps[m + 1].recommended } }

\* the second loop: the individually selected maps whose group is not
\* selected (and exists, and has a map at that index)
IndividualMaps(groups, selGroups, selMaps) ==
  { SplitMapId(mapId) : mapId \in
      { id \in selMaps :
          LET gm == SplitMapId(id)
          IN  /\ gm[1] \notin selGroups
              /\ gm[1] < Len(groups)
              /\ gm[2] < Len(groups[gm[1] + 1].maps) } }

\* mapsToDelete of deleteSelectedDuplicates
MapsToDelete(groups, selGroups, selMaps) ==
  UNION {GroupDuplicates(groups, g, selMaps) : g \in selGroups}
    \cup IndividualMaps(groups, selGroups, selMaps)

\* the panel shows an analysis result and nothing was deleted yet
PanelReady == pc = "done" /\ result # Null

ToggleGroupSelection ==
  /\ PanelReady
  /\ \E groupIndex \in 0..(Len(Val(result).groups) - 1) :
       IF groupIndex \in selectedGroups
         THEN /\ selectedGroups' = selectedGroups \ {groupIndex}
              /\ selectedMaps' =
                   {id \in selectedMaps :
                      ~ startsWith(id, NumberToString(groupIndex) \o <<"_">>)}
         ELSE /\ selectedGroups' = selectedGroups \cup {groupIndex}
              /\ UNCHANGED selectedMaps
  /\ UNCHANGED <<maps, pc, hashGroups, processedHashes, i, j, similarMaps,
                 similarityLevel, songGroups, analyzedGroups, result, strVars,
                 deleteMapsArg>>

ToggleMapSelection ==
  /\ PanelReady
  /\ \E groupIndex \in 0..(Len(Val(result).groups) - 1) :
       \E mapIndex \in 0..(Len(Val(result).groups[groupIndex + 1].maps) - 1) :
         LET mapId == MapId(groupIndex, mapIndex)
         IN  selectedMaps' = IF mapId \in selectedMaps
                               THEN selectedMaps \ {mapId}
                               ELSE selectedMaps \cup {mapId}
  /\ UNCHANGED <<maps, pc, hashGroups, processedHashes, i, j, similarMaps,
                 similarityLevel, songGroups, analyzedGroups, result, strVars,
                 selectedGroups, deleteMapsArg>>

SelectAllGroups ==
  /\ PanelReady
  /\ selectedGroups' = 0..(Len(Val(result).groups) - 1)
  /\ UNCHANGED <<maps, pc, hashGroups, processedHashes, i, j, similarMaps,
                 similarityLevel, songGroups, analyzedGroups, result, strVars,
                 selectedMaps, deleteMapsArg>>

UnselectAllGroups ==
  /\ PanelReady
  /\ selectedGroups' = {}
  /\ UNCHANGED <<maps, pc, hashGroups, processedHashes, i, j, similarMaps,
                 similarityLevel, songGroups, analyzedGroups, result, strVars,
                 selectedMaps, deleteMapsArg>>

\* the delete button (disabled while both selections are empty):
\* deleteMaps is called when mapsToDelete is not empty
DeleteSelectedDuplicates ==
  /\ PanelReady
  /\ ~ (selectedGroups = {} /\ selectedMaps = {})
  /\ LET mapsToDelete ==
           MapsToDelete(Val(result).groups, selectedGroups, selectedMaps)
     IN  deleteMapsArg' = IF mapsToDelete # {} THEN Some(mapsToDelete) ELSE Null
  /\ pc' = "deleted"
  /\ UNCHANGED <<maps, hashGroups, processedHashes, i, j, similarMaps,
                 similarityLevel, songGroups, analyzedGroups, result, strVars,
                 selectedGroups, selectedMaps>>

NextPanel ==
  \/ GroupByHash
  \/ SongOuter
  \/ SongInner
  \/ RankMapGroups
  \/ CalculateTotals
  \/ ToggleGroupSelection
  \/ ToggleMapSelection
  \/ SelectAllGroups
  \/ UnselectAllGroups
  \/ DeleteSelectedDuplicates

Next ==
  \/ GroupByHash
  \/ SongOuter
  \/ SongInner
  \/ RankMapGroups
  \/ CalculateTotals

Spec == Init /\ [][Next]_vars

\* findSimilarMaps on a seed and one candidate
SpecPair == InitPair /\ [][Next]_vars

\* findSimilarMaps on an exact pair with any metadata
SpecScore == InitScore /\ [][Next]_vars

\* findSimilarMaps on the batch [A, B, C] of two copies and a remix
SpecExample == InitExample /\ [][Next]_vars

\* findSimilarMaps on batches long enough for two fuzzy clusters
SpecGreedy == InitGreedy /\ [][Next]_vars

\* findSimilarMaps on an exact pair with finite and non-finite counts
SpecNonFinite == InitNonFinite /\ [][Next]_vars

\* getSimilarity on any two short strings
SpecSim == InitSim /\ [][NextSim]_vars

\* findSimilarMaps followed by the panel's selections and its delete
SpecPanel == InitPanel /\ [][NextPanel]_vars

\* normalizeSongInfo on qualified titles and on short texts
SpecNorm == InitNorm /\ [][NextNorm]_vars

(***************************************************************************)
(* Properties                                                              *)
(***************************************************************************)
Indices(s) == 1..Len(s)

\* the groups of the emitted result (none before the result is emitted)
ResultGroups == IF result = Null THEN <<>> ELSE Val(result).groups

\* every group list the analysis holds at this moment
AllGroupLists == {hashGroups, songGroups, analyzedGroups, ResultGroups}

\* C1: every cluster produced by groupByHash or groupBySimilarSong, and hence
\* every cluster of the result of findSimilarMaps, has at least 2 members.
C1_EveryClusterHasTwoMembers ==
  \A gs \in AllGroupLists : \A g \in Indices(gs) : Len(gs[g].maps) >= 2

\* C1 witness: a result that holds an exact cluster and a fuzzy cluster
C1_Witness ==
  /\ pc = "done"
  /\ \E g \in Indices(ResultGroups) : ResultGroups[g].similarity = "exact"
  /\ \E g \in Indices(ResultGroups) : ResultGroups[g].similarity = "high"

\* the members of cluster c with the largest score
MaxScored(c) ==
  {k \in Indices(c.maps) : \A m \in Indices(c.maps) : c.maps[m].score <= c.maps[k].score}

\* C2: after rankMapGroups every cluster has exactly one recommended member,
\* it has the maximum score of the cluster, and among the members with the
\* maximum score it is the one earliest in the input batch.
C2_OneRecommendedMaxEarliest ==
  pc \in {"totals", "done"} =>
    \A g \in Indices(analyzedGroups) :
      LET c == analyzedGroups[g]
          rec == {k \in Indices(c.maps) : c.maps[k].recommended}
      IN  /\ Cardinality(rec) = 1
          /\ \A k \in rec :
               /\ k \in MaxScored(c)
               /\ \A m \in MaxScored(c) : c.maps[k].map.path <= c.maps[m].map.path

\* C2 witness: a ranked cluster in which two members tie for the maximum and
\* a member with a lower score comes before them in the input
C2_Witness ==
  /\ pc = "done"
  /\ \E g \in Indices(analyzedGroups) :
       LET c == analyzedGroups[g]
       IN  /\ Cardinality(MaxScored(c)) >= 2
           /\ \E m \in Indices(c.maps) :
                /\ m \notin MaxScored(c)
                /\ \A k \in MaxScored(c) : c.maps[m].map.path < c.maps[k].map.path

\* positions of the batch that hold hash h
Occurrences(h) == {p \in Indices(maps) : maps[p].hash = h}

\* the clusters of gs that are exact and have a member with hash h
ExactClustersOf(gs, h) ==
  {g \in Indices(gs) :
     /\ gs[g].similarity = "exact"
     /\ \E k \in Indices(gs[g].maps) : gs[g].maps[k].map.hash = h}

MemberPaths(c) == {c.maps[k].map.path : k \in Indices(c.maps)}

ExactClustersRight(gs) ==
  \A h \in {maps[p].hash : p \in Indices(maps)} :
    IF Cardinality(Occurrences(h)) >= 2
      THEN /\ Cardinality(ExactClustersOf(gs, h)) = 1
           /\ \A g \in ExactClustersOf(gs, h) :
                /\ Len(gs[g].maps) = Cardinality(Occurrences(h))
                /\ MemberPaths(gs[g]) = Occurrences(h)
      ELSE ExactClustersOf(gs, h) = {}

\* C3: a hash that occurs k >= 2 times in the batch gets exactly one cluster
\* from groupByHash, classified exact, with exactly those k records; a hash
\* that occurs once is in no exact cluster.
C3_ExactClusterPerRepeatedHash ==
  /\ pc # "groupByHash" =>
       /\ ExactClustersRight(hashGroups)
       /\ \A g \in Indices(hashGroups) : hashGroups[g].similarity = "exact"
  /\ pc = "done" => ExactClustersRight(ResultGroups)

\* C3 witness: a batch with a hash that occurs at least twice and one that
\* occurs once, after groupByHash
C3_Witness ==
  /\ pc = "songOuter"
  /\ \E p \in Indices(maps) : Cardinality(Occurrences(maps[p].hash)) = 1
  /\ \E p \in Indices(maps) : Cardinality(Occurrences(maps[p].hash)) >= 2
  /\ Len(hashGroups) = 1

\* (cluster, member) pairs of the result that are not recommended
Redundant ==
  {gk \in UNION {{<<g, k>> : k \in Indices(ResultGroups[g].maps)} :
                 g \in Indices(ResultGroups)} :
     ~ ResultGroups[gk[1]].maps[gk[2]].recommended}

RECURSIVE SumOfSizes(_)
\* sum of 200 + 50 * (number of difficulty entries) over a set of pairs
SumOfSizes(pairs) ==
  IF pairs = {} THEN 0
  ELSE LET gk == CHOOSE x \in pairs : TRUE
       IN  200 + 50 * Len(ResultGroups[gk[1]].maps[gk[2]].map.mapInfo.difficulties)
           + SumOfSizes(pairs \ {gk})

\* C4: totalDuplicates is the number of non-recommended members over all
\* returned clusters, potentialSpaceSaving the sum of 200 + 50 * difficulties
\* over those members.
C4_TotalsCountNonRecommended ==
  result # Null =>
    /\ Val(result).totalDuplicates = Cardinality(Redundant)
    /\ Val(result).potentialSpaceSaving = SumOfSizes(Redundant)

\* C4 witness: a result with two clusters and non-recommended members whose
\* difficulty counts differ
C4_Witness ==
  /\ result # Null
  /\ Len(ResultGroups) >= 2
  /\ Cardinality(Redundant) >= 2
  /\ \E a, b \in Redundant :
       Len(ResultGroups[a[1]].maps[a[2]].map.mapInfo.difficulties)
         # Len(ResultGroups[b[1]].maps[b[2]].map.mapInfo.difficulties)

\* C5: on an empty or single-record batch findSimilarMaps runs to its end
\* and returns no cluster, totalDuplicates 0 and potentialSpaceSaving 0.
C5_EmptyOrSingleBatch ==
  Len(maps) <= 1 =>
    /\ pc # "done" => ENABLED Next
    /\ pc = "done" =>
         result = Some([groups |-> <<>>, totalDuplicates |-> 0,
                        potentialSpaceSaving |-> 0])

\* C5 witness: the analysis of a single-record batch has returned
C5_Witness == pc = "done" /\ Len(maps) = 1 /\ result # Null

(***************************************************************************)
(* Properties of one comparison in groupBySimilarSong                      *)
(***************************************************************************)
\* the inner loop is about to compare a candidate that is not yet clustered
Comparing ==
  /\ pc = "songInner"
  /\ j <= Len(maps)
  /\ maps[j].hash \notin processedHashes

\* the step adds the candidate to the seed's cluster / leaves it out
Accepted ==
  /\ similarMaps' = Append(similarMaps, NewScored(maps[j]))
  /\ processedHashes' = processedHashes \cup {maps[j].hash}
Rejected ==
  /\ similarMaps' = similarMaps
  /\ processedHashes' = processedHashes

KeyDistance(a, b) == levenshteinDistance(SongKey(a), SongKey(b))
KeyLength(a, b) == Max2(Len(SongKey(a)), Len(SongKey(b)))

\* the tier by the share of the edit distance in the longer key:
\* similarity > 0.9 is distance < 10%, and so on; exactly 10%, 20%, 30%
\* falls to the lower tier
TierOf(a, b) ==
  LET d == KeyDistance(a, b)
      n == KeyLength(a, b)
  IN  IF 10 * d < n THEN "high"
      ELSE IF 10 * d < 2 * n THEN "medium"
      ELSE IF 10 * d < 3 * n THEN "low"
      ELSE "none"

\* both tempos are known and differ by more than 10 BPM and by more than 10%
\* of the seed's tempo (a known tempo is a positive number)
TempoContradicts(seed, other) ==
  /\ seed.mapInfo.beatsPerMinute # Null
  /\ other.mapInfo.beatsPerMinute # Null
  /\ LET diff == Abs(Val(seed.mapInfo.beatsPerMinute) - Val(other.mapInfo.beatsPerMinute))
     IN  diff > 10 /\ 10 * diff > Val(seed.mapInfo.beatsPerMinute)

\* C6: a not-yet-clustered candidate in the medium or low tier is rejected
\* when both tempos are known and differ by more than 10 BPM and more than
\* 10% of the seed's tempo; a candidate in the high tier is added to the
\* seed's cluster even then.
C6_TempoCheck ==
  [][ Comparing =>
        /\ (TierOf(maps[i], maps[j]) \in {"medium", "low"}
              /\ TempoContradicts(maps[i], maps[j])) => Rejected
        /\ (TierOf(maps[i], maps[j]) = "high"
              /\ TempoContradicts(maps[i], maps[j])) => Accepted ]_vars

\* C6 witness: a medium or low candidate whose tempo contradicts the seed's
\* has been compared and left out
C6_Witness ==
  /\ pc = "songInner" /\ i = 1 /\ j = 3
  /\ TierOf(maps[1], maps[2]) \in {"medium", "low"}
  /\ TempoContradicts(maps[1], maps[2])
  /\ Len(similarMaps) = 1

\* a high candidate whose tempo contradicts the seed's has been added
C6_WitnessHigh ==
  /\ pc = "songInner" /\ i = 1 /\ j = 3
  /\ TierOf(maps[1], maps[2]) = "high"
  /\ TempoContradicts(maps[1], maps[2])
  /\ Len(similarMaps) = 2

\* the duration difference exceeds max(15, 15% of the seed's duration)
DurationExceeds(seed, other) ==
  LET sd == Val(DurationOf(seed))
      diff == Abs(sd - Val(DurationOf(other)))
  IN  diff > 15 /\ 100 * diff > 15 * sd

\* the duration is present
DurationKnown(m) == DurationOf(m) # Null
\* the duration is present and not 0
DurationNonZero(m) == DurationOf(m) # Null /\ Val(DurationOf(m)) # 0

\* the duration rule of C7, with `known` deciding which durations count
DurationRule(known(_)) ==
  ( /\ Comparing
    /\ TierOf(maps[i], maps[j]) # "none"
    /\ ~ ( /\ TierOf(maps[i], maps[j]) \in {"medium", "low"}
           /\ TempoContradicts(maps[i], maps[j]) ) )
  => IF TierOf(maps[i], maps[j]) = "high" THEN Accepted
     ELSE IF known(maps[i]) /\ known(maps[j])
       THEN IF DurationExceeds(maps[i], maps[j]) THEN Rejected ELSE Accepted
     ELSE Accepted

\* C7 as stated: when the tempo check did not reject and both durations are
\* known, a medium or low candidate is rejected exactly when the duration
\* difference exceeds max(15, 15% of the seed's duration); a high candidate
\* is accepted regardless; an unknown duration never rejects.
C7_Original_DurationCheck == [][DurationRule(DurationKnown)]_vars

\* C7 amended: the same, where a duration of 0 counts as unknown.
C7_DurationCheckNonZero == [][DurationRule(DurationNonZero)]_vars

\* C7 witness: a medium or low candidate that passed the tempo check has been
\* left out because its duration exceeds the threshold
C7_Witness ==
  /\ pc = "songInner" /\ i = 1 /\ j = 3
  /\ TierOf(maps[1], maps[2]) \in {"medium", "low"}
  /\ ~ TempoContradicts(maps[1], maps[2])
  /\ DurationNonZero(maps[1]) /\ DurationNonZero(maps[2])
  /\ DurationExceeds(maps[1], maps[2])
  /\ Len(similarMaps) = 1

\* C8: the tier of a seed / candidate pair is high when similarity > 0.9,
\* medium when 0.8 < similarity <= 0.9, low when 0.7 < similarity <= 0.8 and
\* no match when similarity <= 0.7; an edit distance of exactly 10%, 20% or
\* 30% of the longer key gives medium, low and no match, and no match is
\* never added.
C8_TierThresholds ==
  [][ Comparing =>
        /\ similarityLevel' = TierOf(maps[i], maps[j])
        /\ TierOf(maps[i], maps[j]) = "none" => Rejected ]_vars

\* C8 witness: a pair with similarity exactly 0.9 has been given the tier
\* medium
C8_Witness ==
  /\ pc = "songInner" /\ i = 1 /\ j = 3
  /\ 10 * KeyDistance(maps[1], maps[2]) = KeyLength(maps[1], maps[2])
  /\ similarityLevel = "medium"

\* pairs with similarity exactly 0.8 and 0.7 have been given low and no match
C8_WitnessLow ==
  /\ pc = "songInner" /\ i = 1 /\ j = 3
  /\ 10 * KeyDistance(maps[1], maps[2]) = 2 * KeyLength(maps[1], maps[2])
  /\ similarityLevel = "low"
C8_WitnessNone ==
  /\ pc = "songInner" /\ i = 1 /\ j = 3
  /\ 10 * KeyDistance(maps[1], maps[2]) = 3 * KeyLength(maps[1], maps[2])
  /\ similarityLevel = "none"

(***************************************************************************)
(* Properties of getSimilarity and of the score                            *)
(***************************************************************************)
\* C9: getSimilarity(a, b) = getSimilarity(b, a), getSimilarity(a, a) = 1.0
\* and getSimilarity("", "") = 1.0.
C9_SimilaritySymmetricReflexive ==
  simOut # Null =>
    /\ Val(simOut).ab = Val(simOut).ba
    /\ FracEQ(Val(simOut).aa, 1, 1)
    /\ (str1 = <<>> /\ str2 = <<>>) => FracEQ(Val(simOut).ab, 1, 1)

\* C9 witness: getSimilarity has returned for two different strings of
\* different lengths that share a character
C9_Witness ==
  /\ simOut # Null
  /\ Len(str1) < Len(str2)
  /\ Val(simOut).ab.num > 0
  /\ Val(simOut).ab.num < Val(simOut).ab.den

\* the metadata terms of the score of C10 for record m, in units of 1 / 20
ClaimedMetadataScore(m) ==
  LET d == Val(m.songDetails)
      num(x) == IF x = Null THEN 0 ELSE Val(x)
  IN  IF m.songDetails = Null THEN 0
      ELSE 20 * ((num(d.upVotes) - num(d.downVotes)) * 2) + num(d.downloads)
           + (IF d.ranked \/ d.blRanked THEN 20 * 500 ELSE 0)
           + (IF d.curated THEN 20 * 100 ELSE 0)
           + (IF d.uploader # Null /\ Val(d.uploader).verified THEN 20 * 50 ELSE 0)
           - (IF d.automapper THEN 20 * 300 ELSE 0)

\* the score of C10 for record m, in units of 1 / 20; its last term is the
\* difficulty bonus as rankMapGroups grants it (on 5 entries or more)
ClaimedScore(m) ==
  ClaimedMetadataScore(m)
  + (IF Len(m.mapInfo.difficulties) >= 5 THEN 20 * 100 ELSE 0)

\* C10: the score of every record of every cluster is
\* (upVotes - downVotes) * 2 + downloads / 20 (missing fields count 0),
\* + 500 if ranked or blRanked, + 100 if curated, + 50 if the uploader is
\* verified, - 300 if automapper, + the difficulty bonus, each term on its
\* own; without a metadata block it is the difficulty bonus alone.
C10_ScoreFormula ==
  pc \in {"totals", "done"} =>
    \A g \in Indices(analyzedGroups) :
      \A k \in Indices(analyzedGroups[g].maps) :
        analyzedGroups[g].maps[k].score = ClaimedScore(analyzedGroups[g].maps[k].map)

\* C10 witness: a ranked, curated, verified, auto-mapped record with 7 up
\* votes, 2 down votes, 30 downloads and 5 difficulties has the score
\* 10 + 1.5 + 500 + 100 + 50 - 300 + 100 = 461.5
C10_Witness ==
  /\ pc = "done"
  /\ \E g \in Indices(analyzedGroups) :
       \E k \in Indices(analyzedGroups[g].maps) :
         LET m == analyzedGroups[g].maps[k].map
         IN  /\ m.songDetails # Null
             /\ Val(m.songDetails).upVotes = Some(7)
             /\ Val(m.songDetails).downVotes = Some(2)
             /\ Val(m.songDetails).downloads = Some(30)
             /\ Val(m.songDetails).ranked /\ Val(m.songDetails).curated
             /\ Val(m.songDetails).automapper
             /\ Val(m.songDetails).uploader = Some([verified |-> TRUE])
             /\ m.mapInfo.difficulties = Spread(5)
             /\ analyzedGroups[g].maps[k].score = 9230

\* what rankMapGroups added to the score of member sm beyond the metadata
\* terms, in units of 1 / 20
BonusGranted(sm) == sm.score - ClaimedMetadataScore(sm.map)

\* number of different difficulty tags among the entries of record m
DistinctDifficulties(m) == Cardinality(Range(m.mapInfo.difficulties))

\* the scored members of the ranked clusters
RankedMembers ==
  UNION {{analyzedGroups[g].maps[k] : k \in Indices(analyzedGroups[g].maps)} :
         g \in Indices(analyzedGroups)}

\* C11 (as stated): rankMapGroups adds the difficulty bonus of 100 to a
\* record's score if and only if the record has at least 5 distinct
\* difficulty entries.
C11_BonusIffFiveDistinct ==
  pc \in {"totals", "done"} =>
    \A sm \in RankedMembers :
      BonusGranted(sm) = (IF DistinctDifficulties(sm.map) >= 5 THEN 20 * 100 ELSE 0)

\* C12 (as stated): the final score stored for every record is a finite
\* number; whenever the score arithmetic of rankMapGroups yields NaN,
\* Infinity or -Infinity the score stored is 0.
C12_FinalScoreFinite ==
  pc \in {"totals", "done"} =>
    \A sm \in RankedMembers :
      /\ isFinite(sm.score)
      /\ ~ isFinite(ScoreOf(sm.map)) => sm.score = 0

\* the clusters as rankMapGroups receives them
UnrankedGroups == hashGroups \o songGroups

\* position of the record with path p among the members ms
PositionOf(ms, p) == CHOOSE k \in Indices(ms) : ms[k].map.path = p

\* C13: after ranking, the members of every cluster are in order of
\* non-increasing score, and members with equal scores are in the order
\* they had in the cluster before ranking (the sort is stable).
C13_SortedStable ==
  pc \in {"totals", "done"} =>
    \A g \in Indices(analyzedGroups) :
      LET ms == analyzedGroups[g].maps
          before == UnrankedGroups[g].maps
      IN  \A k, m \in Indices(ms) :
            k < m =>
              /\ ms[k].score >= ms[m].score
              /\ ms[k].score = ms[m].score =>
                   PositionOf(before, ms[k].map.path)
                     < PositionOf(before, ms[m].map.path)

\* C13 witness: a ranked cluster of three members whose order the sort
\* changed and two of which tie
C13_Witness ==
  /\ pc = "done"
  /\ \E g \in Indices(analyzedGroups) :
       LET ms == analyzedGroups[g].maps
       IN  /\ Len(ms) = 3
           /\ \E k \in Indices(ms) :
                ms[k].map.path # UnrankedGroups[g].maps[k].map.path
           /\ \E k, m \in Indices(ms) :
                k < m /\ ms[k].score = ms[m].score

RECURSIVE SizeOfMembers(_)
\* sum of 200 + 50 * (number of difficulty entries) over the members ms
SizeOfMembers(ms) ==
  IF ms = <<>> THEN 0
  ELSE 200 + 50 * Len(Head(ms).map.mapInfo.difficulties) + SizeOfMembers(Tail(ms))

\* C14: the totalSize of every ranked cluster is the sum, over all its
\* members, the recommended one included, of 200 + 50 * (number of
\* difficulty entries of the member).
C14_TotalSizeOverAllMembers ==
  pc \in {"totals", "done"} =>
    \A g \in Indices(analyzedGroups) :
      analyzedGroups[g].totalSize = SizeOfMembers(analyzedGroups[g].maps)

\* C14 witness: a returned cluster of three members with 3, 3 and 5
\* difficulty entries in some order and the totalSize 1150
C14_Witness ==
  /\ result # Null
  /\ \E g \in Indices(ResultGroups) :
       /\ Len(ResultGroups[g].maps) = 3
       /\ \E k \in 1..3 : ResultGroups[g].maps[k].recommended
       /\ ResultGroups[g].totalSize = 1150

\* the member of cluster gr that is the record at batch position p
MemberAt(gr, p) == gr.maps[PositionOf(gr.maps, p)]

\* C15: for the batch [A, B, C] (A and B: hash 1, "Foo", "X", 3
\* difficulties; C: hash 2, "Foo (Remix)", "X", 5 difficulties, ranked)
\* findSimilarMaps returns exactly two clusters: an exact cluster {A, B} with
\* both scores 0 and one member recommended, and a high cluster that
\* contains A and C but not B, in which C has score 600 and is recommended.
C15_TwoCopiesAndRemix ==
  result # Null =>
    /\ Len(ResultGroups) = 2
    /\ \E g \in Indices(ResultGroups) :
         LET gr == ResultGroups[g]
         IN  /\ gr.similarity = "exact"
             /\ MemberPaths(gr) = {1, 2}
             /\ Len(gr.maps) = 2
             /\ \A k \in 1..2 : gr.maps[k].score = 0
             /\ Cardinality({k \in 1..2 : gr.maps[k].recommended}) = 1
    /\ \E g \in Indices(ResultGroups) :
         LET gr == ResultGroups[g]
         IN  /\ gr.similarity = "high"
             /\ MemberPaths(gr) = {1, 3}
             /\ Len(gr.maps) = 2
             /\ MemberAt(gr, 3).score = 20 * 600
             /\ MemberAt(gr, 3).recommended
             /\ ~ MemberAt(gr, 1).recommended

\* C15 witness: findSimilarMaps has returned for the batch [A, B, C] in
\* which the tempos of A and C contradict
C15_Witness ==
  /\ result # Null
  /\ Len(maps) = 3
  /\ maps[1].mapInfo.songName = Some(TFoo)
  /\ maps[3].mapInfo.songName = Some(TFooRemix)
  /\ maps[1].mapInfo.beatsPerMinute = Some(120)
  /\ maps[3].mapInfo.beatsPerMinute = Some(170)
  /\ Len(ResultGroups) = 2

\* the stem of a title: its characters before the first space
Stem(t) ==
  LET spaces == {k \in 1..Len(t) : t[k] = " "}
  IN  IF spaces = {} THEN t
      ELSE SubSeq(t, 1, (CHOOSE k \in spaces : \A m \in spaces : k <= m) - 1)

\* t is a stem of letters and digits, a space and a qualifier segment
IsQualifiedTitle(t) ==
  /\ Stem(t) # <<>>
  /\ Range(Stem(t)) \subseteq Range(UpperSeq) \cup Range(LowerSeq) \cup DigitChars
  /\ \E seg \in QualifierSegments : t = Stem(t) \o <<" ">> \o seg

LowerCased(text) == IF text = Null THEN Null ELSE Some(toLowerCase(Val(text)))

\* C16: normalizeSongInfo is insensitive to letter case and to a trailing
\* version-qualifier segment: for a title made of a non-empty stem T of
\* letters and digits, a space and a qualifier segment (remix, edit,
\* version, mix, vip or cover, possibly inside punctuation and followed by
\* any text) and any author A, the key is the key of lower-cased T and
\* lower-cased A, whose title part is lower-cased T.
C16_CaseAndQualifierInsensitive ==
  (key # Null /\ title # Null /\ IsQualifiedTitle(Val(title))) =>
    /\ Val(key) = normalizeSongInfo(Some(toLowerCase(Stem(Val(title)))),
                                    LowerCased(artist))
    /\ Val(key) = toLowerCase(Stem(Val(title))) \o <<" ">>
                    \o normalizeText(LowerCased(artist))

\* C16 witness: the key of ("Song (Remix)", "Artist") is "song artist"
C16_Witness ==
  /\ title = Some(<<"S","o","n","g"," ","(","R","e","m","i","x",")">>)
  /\ artist = Some(<<"A","r","t","i","s","t">>)
  /\ key = Some(<<"s","o","n","g"," ","a","r","t","i","s","t">>)
  /\ normalizeSongInfo(Some(<<"s","o","n","g">>), Some(<<"a","r","t","i","s","t">>))
       = Val(key)

\* C17 (as stated): the key returned by normalizeSongInfo contains only
\* lower-case letters, digits and white space, every other character of the
\* input (punctuation, underscore, symbols) being removed; a null or empty
\* title or author contributes the empty string.
C17_KeyOnlyLettersDigitsSpace ==
  key # Null =>
    /\ Range(Val(key)) \subseteq Range(LowerSeq) \cup DigitChars \cup SpaceChars
    /\ FalsyText(title) => Val(key) = <<" ">> \o normalizeText(artist)
    /\ FalsyText(artist) => Val(key) = normalizeText(title) \o <<" ">>

FuzzyPlaces ==
  UNION {{<<g, k>> : k \in Indices(songGroups[g].maps)} : g \in Indices(songGroups)}
    \cup (IF pc = "songInner" THEN {<<0, k>> : k \in Indices(similarMaps)} ELSE {})

\* the hash of the record at a place
HashAt(gk) ==
  IF gk[1] = 0 THEN similarMaps[gk[2]].map.hash
  ELSE songGroups[gk[1]].maps[gk[2]].map.hash

\* C19: groupBySimilarSong is one greedy pass over the hashes: a record
\* whose hash has been placed in a fuzzy cluster (as seed or as match) is
\* never a seed and never added to a cluster again, so the fuzzy clusters
\* are pairwise disjoint in hashes and none holds two records of one hash.
C19_GreedyDisjointHashes ==
  /\ \A a, b \in FuzzyPlaces : a # b => HashAt(a) # HashAt(b)
  /\ \A a \in FuzzyPlaces : HashAt(a) \in processedHashes

\* C19 witness: two fuzzy clusters were returned; a record matched into the
\* first one stands in the batch before a member of the second one, so it
\* was passed over as a candidate of the second seed and as a seed
C19_Witness ==
  /\ result # Null
  /\ Len(songGroups) = 2
  /\ \E k \in 2..Len(songGroups[1].maps) :
       \E m \in Indices(songGroups[2].maps) :
         /\ songGroups[2].maps[1].map.path < songGroups[1].maps[k].map.path
         /\ songGroups[1].maps[k].map.path < songGroups[2].maps[m].map.path

\* a record whose key equals the seed's is left out of the seed's cluster
\* because its hash is already in it
C19_WitnessSameHash ==
  /\ result # Null
  /\ \E g \in Indices(songGroups) :
       \E p \in Indices(maps) :
         /\ p \notin MemberPaths(songGroups[g])
         /\ p > songGroups[g].maps[1].map.path
         /\ SongKey(maps[p]) = SongKey(songGroups[g].maps[1].map)
         /\ \E k \in Indices(songGroups[g].maps) :
              songGroups[g].maps[k].map.hash = maps[p].hash

\* cluster a of the result is cluster b as its grouping pass produced it:
\* same song, author and classification, same members
SameCluster(a, b) ==
  /\ a.songName = b.songName
  /\ a.authorName = b.authorName
  /\ a.similarity = b.similarity
  /\ Len(a.maps) = Len(b.maps)
  /\ MemberPaths(a) = MemberPaths(b)

\* C20: in the result all clusters of groupByHash come before all clusters
\* of groupBySimilarSong, each pass's clusters in the order the pass
\* produced them; ranking adds, removes and reorders no cluster.
C20_HashClustersFirst ==
  result # Null =>
    /\ Len(ResultGroups) = Len(hashGroups) + Len(songGroups)
    /\ \A g \in Indices(hashGroups) :
         /\ SameCluster(ResultGroups[g], hashGroups[g])
         /\ ResultGroups[g].similarity = "exact"
    /\ \A g \in Indices(songGroups) :
         /\ SameCluster(ResultGroups[Len(hashGroups) + g], songGroups[g])
         /\ ResultGroups[Len(hashGroups) + g].similarity = "high"

\* C20 witness: a result with an exact cluster followed by a fuzzy cluster
\* whose members the ranking has reordered
C20_Witness ==
  /\ result # Null
  /\ Len(hashGroups) >= 1
  /\ Len(songGroups) >= 1
  /\ ResultGroups[1].similarity = "exact"
  /\ ResultGroups[Len(ResultGroups)].similarity = "high"
  /\ \E k \in Indices(songGroups[1].maps) :
       ResultGroups[Len(hashGroups) + 1].maps[k].map.path
         # songGroups[1].maps[k].map.path

\* every member of every cluster held at this moment, the cluster under
\* construction included
AllMembers ==
  UNION {UNION {{gs[g].maps[k] : k \in Indices(gs[g].maps)} : g \in Indices(gs)} :
         gs \in AllGroupLists}
    \cup {similarMaps[k] : k \in Indices(similarMaps)}

\* the record every cluster member refers to is the record at its position
\* of the batch, field by field
MembersAreInputRecords ==
  \A sm \in AllMembers :
    /\ sm.map.path \in Indices(maps)
    /\ sm.map = maps[sm.map.path]

\* C21: findSimilarMaps leaves its input unchanged: no step changes the
\* batch (same records, same order, same fields), so groupByHash and
\* groupBySimilarSong see the same batch, and the records the clusters refer
\* to stay the input records; the score, recommended and sort writes of
\* rankMapGroups go to the clusters only.
C21_InputUnchanged ==
  [][maps' = maps /\ MembersAreInputRecords']_vars

\* C21 witness: a result in which rankMapGroups has written a score and
\* moved a member, the batch still holding three records
C21_Witness ==
  /\ result # Null
  /\ Len(maps) = 3
  /\ \E g \in Indices(ResultGroups) :
       /\ ResultGroups[g].maps[1].score > 0
       /\ ResultGroups[g].maps[1].recommended
       /\ ResultGroups[g].maps[1].map.path
            # UnrankedGroups[g].maps[1].map.path

\* similarity of the keys of a and b is above 0.7: the edit distance is
\* less than 30% of the longer key (similarity 1.0 for two empty keys)
SimilarAbove07(a, b) == KeyLength(a, b) = 0 \/ 10 * KeyDistance(a, b) < 3 * KeyLength(a, b)

\* C22: fuzzy grouping is relative to the seed and not transitively closed:
\* in every cluster of groupBySimilarSong the first member, the seed, is the
\* earliest in input order, every other member stands later in the input
\* and its key has similarity > 0.7 to the seed's key itself; so a record
\* that is similar to another member but not to the seed is not a member.
C22_SeedRelative ==
  \A g \in Indices(songGroups) :
    LET ms == songGroups[g].maps
        seed == ms[1].map
    IN  \A k \in 2..Len(ms) :
          /\ ms[k].map.path > seed.path
          /\ SimilarAbove07(seed, ms[k].map)

\* C22 witness: a returned fuzzy cluster and a record behind its seed that
\* is similar to a member of the cluster, not similar to the seed, of a
\* hash the cluster does not hold, and not a member
C22_Witness ==
  /\ result # Null
  /\ \E g \in Indices(songGroups) :
       \E p \in Indices(maps) :
         LET ms == songGroups[g].maps
         IN  /\ p > ms[1].map.path
             /\ p \notin MemberPaths(songGroups[g])
             /\ \A k \in Indices(ms) : ms[k].map.hash # maps[p].hash
             /\ ~ SimilarAbove07(ms[1].map, maps[p])
             /\ \E k \in 2..Len(ms) :
                  /\ ms[k].map.path < p
                  /\ SimilarAbove07(ms[k].map, maps[p])

\* the records that are a non-recommended member of some returned cluster:
\* what discarding every non-recommended member removes
DiscardedPaths ==
  {ResultGroups[gk[1]].maps[gk[2]].map.path : gk \in Redundant}

\* C23 (as stated): discarding every non-recommended record of a result
\* never removes all the copies a cluster holds: every returned cluster has
\* a member that is not a non-recommended member of any returned cluster.
C23_EveryClusterKeepsACopy ==
  result # Null =>
    \A g \in Indices(ResultGroups) :
      \E p \in MemberPaths(ResultGroups[g]) : p \notin DiscardedPaths

\* the <<groupIndex, mapIndex>> whose map deleteSelectedDuplicates handed to
\* deleteMaps (none when deleteMaps was not called)
PassedToDelete == IF deleteMapsArg = Null THEN {} ELSE Val(deleteMapsArg)

\* the <<groupIndex, mapIndex>> of every map of the result shown
ShownMaps ==
  UNION {{<<g - 1, m - 1>> : m \in Indices(ResultGroups[g].maps)} :
         g \in Indices(ResultGroups)}

IsRecommended(gm) == ResultGroups[gm[1] + 1].maps[gm[2] + 1].recommended

\* C24 (as stated): when deleteSelectedDuplicates has run after any
\* sequence of selections, every individually selected map was handed to
\* deleteMaps, whether or not its group is selected too; so was every
\* non-recommended map of a selected group that is not individually
\* selected; and a recommended map was handed over only if it was
\* individually selected.
C24_DeleteFollowsSelections ==
  pc = "deleted" =>
    \A gm \in ShownMaps :
      /\ MapId(gm[1], gm[2]) \in selectedMaps => gm \in PassedToDelete
      /\ (gm[1] \in selectedGroups /\ ~ IsRecommended(gm)
            /\ MapId(gm[1], gm[2]) \notin selectedMaps) => gm \in PassedToDelete
      /\ (IsRecommended(gm) /\ gm \in PassedToDelete) =>
            MapId(gm[1], gm[2]) \in selectedMaps

\* the member of cluster c that is earliest in the input
EarliestMember(c) ==
  maps[CHOOSE p \in MemberPaths(c) : \A q \in MemberPaths(c) : p <= q]

\* C25: in every returned cluster songName and authorName are the title and
\* author of the member that was first when the cluster was formed, the
\* earliest member in input order (for an exact cluster the first record of
\* the batch with that hash, for a fuzzy cluster the seed); rankMapGroups
\* leaves them alone, also when the sort moves that member from the front.
C25_NamedAfterFirstMember ==
  /\ \A gs \in AllGroupLists :
       \A g \in Indices(gs) :
         /\ gs[g].songName = EarliestMember(gs[g]).mapInfo.songName
         /\ gs[g].authorName = EarliestMember(gs[g]).mapInfo.songAuthorName
  /\ \A g \in Indices(hashGroups) :
       /\ EarliestMember(hashGroups[g]) = hashGroups[g].maps[1].map
       /\ \A p \in Indices(maps) :
            maps[p].hash = hashGroups[g].maps[1].map.hash
              => p >= hashGroups[g].maps[1].map.path
  /\ \A g \in Indices(songGroups) :
       EarliestMember(songGroups[g]) = songGroups[g].maps[1].map
  /\ result # Null =>
       \A g \in Indices(ResultGroups) :
         /\ ResultGroups[g].songName = UnrankedGroups[g].songName
         /\ ResultGroups[g].authorName = UnrankedGroups[g].authorName

\* C25 witness: a returned cluster whose first member after the sort is not
\* its earliest member and has another title than the cluster
C25_Witness ==
  /\ result # Null
  /\ \E g \in Indices(ResultGroups) :
       /\ ResultGroups[g].maps[1].map # EarliestMember(ResultGroups[g])
       /\ ResultGroups[g].maps[1].map.mapInfo.songName # ResultGroups[g].songName
       /\ ResultGroups[g].songName = EarliestMember(ResultGroups[g]).mapInfo.songName

====
